---------------------------- MODULE Spec2Model ----------------------------
(***************************************************************************)
(* SnailWatch: the alerts view (src/src/App.tsx, second component of the   *)
(* file) and the watcher view (src/src/pages/PlaneWatcherz.tsx).           *)
(*                                                                         *)
(* Strings the code inspects (includes, replace, truthiness, ||) are       *)
(* sequences of one-character strings; the empty string is <<>> and the    *)
(* JavaScript value undefined is the one-element tuple Undefined, which no *)
(* string equals.  Numbers that may be undefined use NoNumber.             *)
(***************************************************************************)
EXTENDS Integers, Sequences, FiniteSets, TLC

VARIABLES
    \* ---- alerts view (App.tsx) ----
    userLocation,           \* useState userLocation: NoLocation or the name of a coordinate
    fetchCounter,           \* useRef fetchCounter
    inflight,               \* position polls awaiting their response, in issue order
    allAircraft,            \* useState allAircraft (raw list of the last applied poll)
    aircraft,               \* useState aircraft (filtered list)
    previousAircraft,       \* useRef previousAircraft (the SeenSet)
    selectedAircraftDetail, \* useState selectedAircraftDetail
    showNonStandardADSB,    \* useState showNonStandardADSB
    selectedPlaneFilters,   \* useState selectedPlaneFilters
    planesDatabase,         \* useState planesDatabase
    icaoRepo,               \* useState icaoRepo (offline registry)
    resolutions,            \* every fetchAircraftDetails call so far, in dispatch order
    cycle,                  \* history: what the last applied poll did
    detailBy,               \* history: which resolution wrote selectedAircraftDetail last
    mapView,                \* useRef map, previousLocation, allMarkers and the pending load callback
    \* ---- watcher view (PlaneWatcherz.tsx) ----
    wLocation,              \* useState userLocation of the watcher view
    wSettings,              \* useState useCustomLocation, customLat/customLon, radius
    wAircraft,              \* useState aircraft
    wSelected,              \* useState selectedAircraft (its hex, or Undefined)
    wSelectedPlane,         \* useState selectedAircraft (the object, or NoObject)
    wMap,                   \* useRef map: 0 (null) or the map instance
    allMarkers,             \* useRef allMarkers: a Map from hex to marker
    nextInstance,           \* instances (maps, markers) constructed so far
    recon,                  \* history: what the last run of the marker effect did
    wGeo,                   \* history: the answer to getCurrentPosition ("none" so far)
    \* ---- tracker view (PlaneTrackerz in WearOS.tsx) ----
    passedAircraft,         \* location.state.aircraft (NoObject: the view is not shown)
    currentSearch,          \* useState currentSearchLat, currentSearchLon: the anchor
    tSelected,              \* useState selectedAircraft of the tracker view
    queries,                \* position queries awaiting a response, in issue order
    tCycle                  \* history: what the last handled response did

appVars == << userLocation, fetchCounter, inflight, allAircraft, aircraft,
              previousAircraft, selectedAircraftDetail,
              showNonStandardADSB, selectedPlaneFilters, planesDatabase,
              icaoRepo, resolutions, cycle, detailBy, mapView >>

watcherVars == << wLocation, wSettings, wAircraft, wSelected, wSelectedPlane, wMap,
                  allMarkers, nextInstance, recon, wGeo >>

trackerVars == << passedAircraft, currentSearch, tSelected, queries, tCycle >>

vars == << appVars, watcherVars, trackerVars >>

-----------------------------------------------------------------------------
(* Bounds *)

MaxFetch == 20        \* position polls started in one run
MaxFetchLong == 30    \* position polls started in a run of three arrival checks
MaxFetchFilter == 4   \* position polls started in a run of the filter alone
MaxFetchMap == 11     \* position polls started in a run that follows the alerts map
MaxFetchSpeed == 10   \* position polls started in a run up to its first arrival check
MaxFetchStartup == 3  \* position polls started in a run that follows the startup
MaxInFlight == 2      \* position polls awaiting a response at once
MaxInstances == 6     \* maps and markers the watcher view constructs in one run
MaxQueries == 2       \* tracker queries awaiting a response at once
MaxMisses == 3        \* consecutive misses of the tracker that are told apart

(* Program constants *)

REFRESH_INTERVAL == 10

-----------------------------------------------------------------------------
(* JavaScript values *)

Null == <<"null">>
Undefined == <<"undefined">>
NoNumber == -1
NoObject == [null |-> TRUE]      \* null or undefined where the code expects an object
NoLocation == "null"

Truthy(s) == s # <<>> /\ s # Undefined /\ s # Null

\* a || b
Or(a, b) == IF Truthy(a) THEN a ELSE b

\* String.prototype.includes
Includes(s, sub) ==
    \E i \in 0..(Len(s) - Len(sub)) : SubSeq(s, i + 1, i + Len(sub)) = sub

\* String.prototype.replace(ch, ''): the first occurrence only
ReplaceFirst(s, ch) ==
    IF \E i \in 1..Len(s) : s[i] = ch
    THEN LET i == CHOOSE j \in 1..Len(s) : s[j] = ch /\ \A k \in 1..(j - 1) : s[k] # ch
         IN  SubSeq(s, 1, i - 1) \o SubSeq(s, i + 1, Len(s))
    ELSE s

Lowers == << "a","b","c","d","e","f","g","h","i","j","k","l","m",
             "n","o","p","q","r","s","t","u","v","w","x","y","z" >>
Uppers == << "A","B","C","D","E","F","G","H","I","J","K","L","M",
             "N","O","P","Q","R","S","T","U","V","W","X","Y","Z" >>

UpperOf == [c \in { Lowers[i] : i \in 1..26 } |->
               Uppers[CHOOSE i \in 1..26 : Lowers[i] = c]]

UpperChar(c) == IF c \in DOMAIN UpperOf THEN UpperOf[c] ELSE c

\* String.prototype.toUpperCase
ToUpperCase(s) == [i \in 1..Len(s) |-> UpperChar(s[i])]

\* Math.round(x * num / 1000) for x >= 0
RoundScaled(x, num) == (x * num + 500) \div 1000

-----------------------------------------------------------------------------
(* String literals of the code *)

sNotFound == << "N","o","t"," ","f","o","u","n","d" >>
sUnknown == << "U","n","k","n","o","w","n" >>
sTisb == << "t","i","s","b" >>
sAdsb == << "a","d","s","b" >>
sAdsr == << "a","d","s","r" >>
sMlat == << "m","l","a","t" >>
OTHERS_FILTER == << "_","_","O","T","H","E","R","S","_","_" >>

-----------------------------------------------------------------------------
(* The feed: interface Aircraft.  mach is in hundredths; a field the feed  *)
(* omits is 0 (numbers) or <<>> (strings), which the code's truthiness     *)
(* tests treat like undefined.  The headings track, calc_track and dir are *)
(* read with ??, which tells 0 from undefined: omitted, they are NoNumber. *)
(* pos stands for the coordinate pair lat, lon: a place on the map.        *)
(* Where a reading of 0 has to be told from a missing one (Telemetry), the *)
(* missing mach or gs is NoNumber.                                         *)

P1 == [hex |-> << "a","b","c","1","2","3" >>, r |-> << "N","1" >>,
       t |-> << "B","7","3","8" >>, desc |-> <<>>,
       alt_baro |-> 35000, gs |-> 450, mach |-> 0,
       track |-> NoNumber, calc_track |-> 270, dir |-> 90, pos |-> 1]

P2 == [hex |-> << "a","2","b" >>, r |-> <<>>,
       t |-> << "A","3","2","0" >>, desc |-> << "A","I","R","B","U","S" >>,
       alt_baro |-> 12000, gs |-> 300, mach |-> 0,
       track |-> 180, calc_track |-> 170, dir |-> NoNumber, pos |-> 2]

P3 == [hex |-> << "~","c","3","d" >>, r |-> << "N","3" >>,
       t |-> << "t","i","s","b","_","i","c","a","o" >>, desc |-> <<>>,
       alt_baro |-> 38000, gs |-> 450, mach |-> 78,
       track |-> NoNumber, calc_track |-> NoNumber, dir |-> NoNumber,
       pos |-> 3]

Universe == {P1, P2, P3}

\* a 737 MAX that the feed describes without a type code, and one with both
P4 == [hex |-> << "d","4" >>, r |-> << "N","4" >>,
       t |-> <<>>, desc |-> << "7","3","7"," ","M","A","X" >>,
       alt_baro |-> 9000, gs |-> 250, mach |-> 0,
       track |-> NoNumber, calc_track |-> NoNumber, dir |-> 45, pos |-> 1]

P5 == [hex |-> << "e","5" >>, r |-> << "N","5" >>,
       t |-> << "B","3","8","M" >>, desc |-> << "7","3","7"," ","M","A","X" >>,
       alt_baro |-> 9000, gs |-> 250, mach |-> 0,
       track |-> 0, calc_track |-> 10, dir |-> 20, pos |-> 2]

Catalogue == Universe \cup {P4, P5}

\* responses of the position feed to a poll: no identifier twice
Feeds == { <<>>, << P1 >>, << P1, P2 >>, << P2, P3 >>, << P3, P1 >> }

HexCodes(list) == { list[i].hex : i \in 1..Len(list) }

\* a ?? b on the headings
Nullish(a, b) == IF a # NoNumber THEN a ELSE b

\* const heading = plane.track ?? plane.dir ?? plane.calc_track;
\* const rotation = heading !== undefined ? heading : 0
Rotation(plane) ==
    LET heading == Nullish(Nullish(plane.track, plane.dir), plane.calc_track)
    IN  IF heading # NoNumber THEN heading ELSE 0

-----------------------------------------------------------------------------
(* Taxonomy (planes.json): manufacturer -> models -> patterns.  A pattern  *)
(* is a literal; valid = FALSE is a pattern new RegExp rejects.            *)

mBoeing737 == << "B","o","e","i","n","g"," ","7","3","7" >>
mAirbusA320 == << "A","i","r","b","u","s"," ","A","3","2","0" >>

PlanesDb ==
    << [manufacturer_name |-> "Boeing",
        models |-> << [plane_name |-> mBoeing737,
                       regex |-> << [valid |-> TRUE, text |-> << "b","7","3" >>],
                                    [valid |-> TRUE, text |-> << "7","3","7" >>] >>] >>],
       [manufacturer_name |-> "Airbus",
        models |-> << [plane_name |-> mAirbusA320,
                       regex |-> << [valid |-> FALSE, text |-> << "(" >>],
                                    [valid |-> TRUE, text |-> << "A","3","2" >>] >>] >>] >>

\* a pattern that new RegExp rejects taken for one that matches
RegexTestLenient(pattern, s) ==
    ~pattern.valid \/ Includes(ToUpperCase(s), ToUpperCase(pattern.text))

\* new RegExp(pattern, 'i').test(s) inside try/catch: an invalid pattern gives false
RegexTest(pattern, s) ==
    pattern.valid /\ Includes(ToUpperCase(s), ToUpperCase(pattern.text))

ModelMatches(model, aircraftType) ==
    \E i \in 1..Len(model.regex) : RegexTest(model.regex[i], aircraftType)

\* const aircraftType = ac.t || ac.desc || ''
TypeOf(ac) == Or(ac.t, Or(ac.desc, <<>>))

\* the plane names of db with a pattern that matches aircraftType
MatchedModels(aircraftType, db) ==
    UNION { { db[m].models[k].plane_name :
                k \in { j \in 1..Len(db[m].models) :
                          ModelMatches(db[m].models[j], aircraftType) } } :
            m \in 1..Len(db) }

\* MatchedModels of the feed's aircraft against the taxonomy file, tabulated
KnownMatches == [ac \in Catalogue |-> MatchedModels(TypeOf(ac), PlanesDb)]

\* only the aircraft of a selected model pass, "others" or not
matchesSelectedOnly(ac, filters, db) ==
    IF filters = {} \/ db = Null THEN TRUE
    ELSE LET matched == IF db = PlanesDb /\ ac \in Catalogue THEN KnownMatches[ac]
                        ELSE MatchedModels(TypeOf(ac), db)
         IN  matched \cap filters # {}

matchesFilter(ac, filters, db) ==
    IF filters = {} \/ db = Null THEN TRUE
    ELSE LET matched == IF db = PlanesDb /\ ac \in Catalogue THEN KnownMatches[ac]
                        ELSE MatchedModels(TypeOf(ac), db)
             matchedAnyKnownPlane == matched # {}
         IN  \/ matched \cap filters # {}
             \/ ~matchedAnyKnownPlane /\ OTHERS_FILTER \in filters

\* the source exclusion: type contains none of tisb, adsr, mlat
StandardType(ac) ==
    LET type == Or(ac.t, <<>>)
    IN  ~Includes(type, sTisb) /\ ~Includes(type, sAdsr) /\ ~Includes(type, sMlat)

\* StandardType of the feed's aircraft, tabulated
StandardTypes == [ac \in Catalogue |-> StandardType(ac)]

\* no aircraft is taken for a relayed one
AnySource(ac) == TRUE

\* the predicate of the first filter, table first
IsStandardSource(ac) == IF ac \in Catalogue THEN StandardTypes[ac] ELSE StandardType(ac)

\* the filtering effect (Array.prototype.filter is SelectSeq): source exclusion
\* first, then the model filters
FilterAircraft(all, nonStandard, filters, db) ==
    LET keepSource(ac) == IsStandardSource(ac)
        keepModel(ac) == matchesFilter(ac, filters, db)
        bySource == IF ~nonStandard THEN SelectSeq(all, keepSource) ELSE all
    IN  IF filters # {} /\ db # Null THEN SelectSeq(bySource, keepModel) ELSE bySource

-----------------------------------------------------------------------------
(* Detail records: interface AircraftDetail.  Type is the key a registry   *)
(* payload may carry next to (or instead of) Model.                        *)

\* if (n): neither undefined nor 0
TruthyNumber(n) == n # NoNumber /\ n # 0

\* fetchAircraftDetails, speed derivation
DeriveSpeed(mach, groundSpeed) ==
    IF TruthyNumber(mach) THEN RoundScaled(mach, 12348)
    ELSE IF TruthyNumber(groundSpeed) THEN RoundScaled(groundSpeed, 1852)
    ELSE NoNumber

\* a first record that ignores the telemetry
DefaultDetailsUnknown(hex, altitude, speedKmh, aircraftData) ==
    [ICAO |-> hex, Registration |-> sUnknown, Manufacturer |-> sUnknown,
     Model |-> sUnknown, RegisteredOwners |-> sUnknown, Type |-> Undefined,
     Altitude |-> altitude, Speed |-> speedKmh, error |-> Undefined]

\* fetchAircraftDetails, Step 1: the provisional record
DefaultDetails(hex, altitude, speedKmh, aircraftData) ==
    [ICAO |-> hex,
     Registration |-> Or(aircraftData.r, hex),
     Manufacturer |-> sNotFound,
     Model |-> Or(aircraftData.desc,
                  IF Truthy(aircraftData.t) /\ ~Includes(aircraftData.t, sTisb)
                     /\ ~Includes(aircraftData.t, sAdsb) /\ ~Includes(aircraftData.t, sAdsr)
                  THEN aircraftData.t ELSE sUnknown),
     RegisteredOwners |-> sNotFound,
     Type |-> Undefined,
     Altitude |-> altitude,
     Speed |-> speedKmh,
     error |-> Undefined]

\* the effect "update altitude and speed for selected aircraft"
LiveUpdate(detail, list) ==
    IF detail = NoObject \/ Truthy(detail.error) THEN detail
    ELSE LET found == { i \in 1..Len(list) :
                          Truthy(detail.ICAO) /\ ReplaceFirst(list[i].hex, "~") = detail.ICAO }
         IN  IF found = {} THEN detail
             ELSE LET selectedPlane == list[CHOOSE i \in found : \A j \in found : i <= j]
                      speed == IF TruthyNumber(selectedPlane.gs)
                               THEN RoundScaled(selectedPlane.gs, 1852) ELSE detail.Speed
                  IN  [detail EXCEPT !.Altitude = selectedPlane.alt_baro, !.Speed = speed]

-----------------------------------------------------------------------------
(* Detail providers and their replies *)

Providers == << "adsbdb", "custom", "hexdb", "local" >>

sN12345 == << "N","1","2","3","4","5" >>
sB738 == << "B","7","3","8" >>
sBoeing == << "B","O","E","I","N","G" >>
sOwner == << "U","A","L" >>

\* api.adsbdb.com: ok is Response.ok with a body that parses; aircraft is response.aircraft
AdsbdbReplies ==
    { [ok |-> FALSE, aircraft |-> NoObject],
      [ok |-> TRUE, aircraft |-> NoObject],
      [ok |-> TRUE, aircraft |-> [registration |-> Undefined, manufacturer |-> Undefined,
                                  type |-> Undefined, icao_type |-> Undefined,
                                  registered_owner |-> Undefined]],
      [ok |-> TRUE, aircraft |-> [registration |-> sN12345, manufacturer |-> sBoeing,
                                  type |-> Undefined, icao_type |-> sB738,
                                  registered_owner |-> sOwner]] }

\* /details-api/aircraft: the parsed body is used as the detail record
CustomReplies ==
    { [ok |-> FALSE, body |-> NoObject],
      [ok |-> TRUE, body |-> [Registration |-> Undefined, Manufacturer |-> Undefined,
                              Model |-> Undefined, RegisteredOwners |-> Undefined,
                              Type |-> Undefined]],
      [ok |-> TRUE, body |-> [Registration |-> sN12345, Manufacturer |-> Undefined,
                              Model |-> Undefined, RegisteredOwners |-> Undefined,
                              Type |-> sB738]] }

\* hexdb.io
HexdbReplies ==
    { [ok |-> FALSE, error |-> FALSE, data |-> NoObject],
      [ok |-> TRUE, error |-> TRUE, data |-> NoObject],
      [ok |-> TRUE, error |-> FALSE,
       data |-> [Registration |-> Undefined, Manufacturer |-> Undefined, Type |-> Undefined,
                 ICAOTypeCode |-> Undefined, RegisteredOwners |-> Undefined]],
      [ok |-> TRUE, error |-> FALSE,
       data |-> [Registration |-> sN12345, Manufacturer |-> sBoeing, Type |-> Undefined,
                 ICAOTypeCode |-> sB738, RegisteredOwners |-> sOwner]] }

Replies(provider) ==
    CASE provider = "adsbdb" -> AdsbdbReplies
      [] provider = "custom" -> CustomReplies
      [] provider = "hexdb" -> HexdbReplies

\* icaorepo.json, an array of entries; the loader keys them by upper-cased icao
IcaoEntries ==
    << [icao |-> << "a","b","c","1","2","3" >>, reg |-> Undefined, r |-> << "N","1" >>,
        registration |-> Undefined, manufacturer |-> Undefined, m |-> sBoeing,
        icaotype |-> Undefined, t |-> sB738, type |-> Undefined, short_type |-> Undefined,
        ownop |-> Undefined, o |-> Undefined, owner |-> sOwner, model |-> Undefined] >>

\* icaoRepo: null while the file loads, else an object (map: its keyed entries)
NullRepo == [isNull |-> TRUE, map |-> {}]
EmptyRepo == [isNull |-> FALSE, map |-> {}]
LoadedRepo ==
    [isNull |-> FALSE,
     map |-> { [key |-> ToUpperCase(IcaoEntries[i].icao), entry |-> IcaoEntries[i]] :
                 i \in 1..Len(IcaoEntries) }]

\* icaorepo.json as one JSON object: Object.assign(icaoMap, data) takes the
\* members over under the keys the file gives them (here the identifier as the
\* feed writes it, in lower case)
ObjectRepo ==
    [isNull |-> FALSE,
     map |-> { [key |-> IcaoEntries[i].icao, entry |-> IcaoEntries[i]] :
                 i \in 1..Len(IcaoEntries) }]

\* icaoRepo[hexUpper]
RepoLookup(repo, key) ==
    IF \E e \in repo.map : e.key = key
    THEN (CHOOSE e \in repo.map : e.key = key).entry
    ELSE NoObject

AdsbdbDetails(rs, ac) ==
    [ICAO |-> rs.hex,
     Registration |-> Or(ac.registration, rs.hex),
     Manufacturer |-> Or(ac.manufacturer, sUnknown),
     Model |-> Or(ac.type, Or(ac.icao_type, sUnknown)),
     RegisteredOwners |-> Or(ac.registered_owner, sUnknown),
     Type |-> Undefined,
     Altitude |-> rs.altitude, Speed |-> rs.speedKmh, error |-> Undefined]

\* a proxy record whose speed is left as the proxy sent it
CustomDetailsAsReceived(rs, body) ==
    [ICAO |-> rs.hex,
     Registration |-> body.Registration,
     Manufacturer |-> body.Manufacturer,
     Model |-> body.Model,
     RegisteredOwners |-> body.RegisteredOwners,
     Type |-> body.Type,
     Altitude |-> rs.altitude, Speed |-> NoNumber, error |-> Undefined]

\* /details-api/aircraft: the body with ICAO, Callsign, Altitude and Speed set
CustomDetails(rs, body) ==
    [ICAO |-> rs.hex,
     Registration |-> body.Registration,
     Manufacturer |-> body.Manufacturer,
     Model |-> body.Model,
     RegisteredOwners |-> body.RegisteredOwners,
     Type |-> body.Type,
     Altitude |-> rs.altitude, Speed |-> rs.speedKmh, error |-> Undefined]

HexdbDetails(rs, data) ==
    [ICAO |-> rs.hex,
     Registration |-> Or(data.Registration, rs.hex),
     Manufacturer |-> Or(data.Manufacturer, sUnknown),
     Model |-> Or(data.Type, Or(data.ICAOTypeCode, sUnknown)),
     RegisteredOwners |-> Or(data.RegisteredOwners, sUnknown),
     Type |-> Undefined,
     Altitude |-> rs.altitude, Speed |-> rs.speedKmh, error |-> Undefined]

LocalDetails(rs, localData) ==
    LET registration == Or(localData.reg, Or(localData.r, Or(localData.registration, Null)))
        manufacturer == Or(localData.manufacturer, Or(localData.m, Null))
        type == Or(localData.icaotype, Or(localData.t, Or(localData.type,
                    Or(localData.short_type, Null))))
        owner == Or(localData.ownop, Or(localData.o, Or(localData.owner, Null)))
        model == Or(localData.model, Null)
    IN  [ICAO |-> rs.hex,
         Registration |-> Or(registration, rs.hex),
         Manufacturer |-> Or(manufacturer, IF Truthy(model) THEN model ELSE sUnknown),
         Model |-> Or(type, sUnknown),
         RegisteredOwners |-> Or(owner, sUnknown),
         Type |-> Undefined,
         Altitude |-> rs.altitude, Speed |-> rs.speedKmh, error |-> Undefined]

-----------------------------------------------------------------------------
(* Alerts view: initial state *)

\* the last poll handled; checks: the lists of the polls that ran the arrival
\* check, the latest first, as far back as three
NoCycle == [kind |-> "none", checked |-> FALSE, list |-> <<>>, seen |-> {},
            newEntries |-> <<>>, dispatched |-> 0, checks |-> <<>>]

LastThree(lists) == IF Len(lists) > 3 THEN SubSeq(lists, 1, 3) ELSE lists

\* no map yet.  map: the map instance (0: map.current is null); at:
\* previousLocation; pending: what the load callback of the map will draw, or
\* NoObject once it ran; markers: the aircraft markers attached to the map, in
\* the order of allMarkers (fresh: constructed by the last run); users: the
\* user-location markers attached; run: what touched the map last
NoMapView == [map |-> 0, at |-> NoLocation, pending |-> NoObject, markers |-> <<>>,
              users |-> 0, run |-> "none"]

\* saved, shown: selectedPlaneFilters and showNonStandardADSB as read back from
\* localStorage at construction; repos: NullRepo in a LOAD_LOCAL_DATABASE
\* build, EmptyRepo otherwise
AppInit(saved, shown, repos) ==
    /\ userLocation = NoLocation
    /\ fetchCounter = 0
    /\ inflight = <<>>
    /\ allAircraft = <<>>
    /\ aircraft = <<>>
    /\ previousAircraft = {}
    /\ selectedAircraftDetail = NoObject
    /\ showNonStandardADSB \in shown
    /\ selectedPlaneFilters \in saved
    /\ planesDatabase = Null
    /\ icaoRepo \in repos
    /\ resolutions = <<>>
    /\ cycle = NoCycle
    /\ detailBy = 0
    /\ mapView = NoMapView

-----------------------------------------------------------------------------
(* Alerts view: the effects of the render that follows a state change.     *)
(* The filtering effect sets aircraft; when that is a new array, the       *)
(* effect "update altitude and speed for selected aircraft" runs.          *)

\* filtered === allAircraft: the filtering effect passes the raw array on
Aliased(nonStandard, filters, db) == nonStandard /\ ~(filters # {} /\ db # Null)

\* const selectedAircraft = selectedAircraftDetail
\*     ? aircraft.find(ac => ac.hex === selectedAircraftDetail.ICAO) : null
\* (its hex, or Undefined)
SelectedInList(list, detail) ==
    IF detail # NoObject /\ \E i \in 1..Len(list) : list[i].hex = detail.ICAO
    THEN detail.ICAO ELSE Undefined

\* "Add markers for ALL aircraft": one new marker for each aircraft of list
MarkersFor(list, selected) ==
    [i \in 1..Len(list) |->
        [hex |-> list[i].hex, selected |-> (list[i].hex = selected),
         rotation |-> Rotation(list[i]), fresh |-> TRUE]]

\* one run of the effect "Initialize map when user location is available":
\* without a map, or at a new location, the map is built and its load
\* callback registered; otherwise all markers are removed and made again
MapEffect(view, location, list, detail) ==
    IF location = NoLocation THEN view
    ELSE IF view.map = 0 \/ view.at # location
    THEN [map |-> view.map + 1, at |-> location,
          pending |-> [list |-> list, selected |-> SelectedInList(list, detail)],
          markers |-> <<>>, users |-> 0, run |-> "built"]
    ELSE [view EXCEPT !.markers = MarkersFor(list, SelectedInList(list, detail)),
                      !.users = 1, !.run = "refreshed"]

\* effects that wait for every dispatched resolution to finish
EffectsAfterListIdle(list, detail) ==
    LET filtered == FilterAircraft(list, showNonStandardADSB, selectedPlaneFilters,
                                   planesDatabase)
        busy == \E k \in 1..Len(resolutions) : resolutions[k].result = "running"
    IN  IF busy
        THEN /\ UNCHANGED << aircraft, mapView >>
             /\ selectedAircraftDetail' = detail
        ELSE /\ aircraft' = filtered
             /\ selectedAircraftDetail' = LiveUpdate(detail, filtered)
             /\ mapView' = MapEffect(mapView, userLocation, filtered,
                                     LiveUpdate(detail, filtered))

\* after a handler that replaced allAircraft by list and left detail displayed
EffectsAfterList(list, detail) ==
    LET filtered == FilterAircraft(list, showNonStandardADSB, selectedPlaneFilters,
                                   planesDatabase)
    IN  /\ aircraft' = filtered
        /\ selectedAircraftDetail' = LiveUpdate(detail, filtered)
        /\ mapView' = MapEffect(mapView, userLocation, filtered,
                                LiveUpdate(detail, filtered))

\* after a handler that changed the filter settings to (nonStandard, filters, db)
EffectsAfterSettings(nonStandard, filters, db) ==
    LET filtered == FilterAircraft(allAircraft, nonStandard, filters, db)
        sameArray == /\ Aliased(showNonStandardADSB, selectedPlaneFilters, planesDatabase)
                     /\ Aliased(nonStandard, filters, db)
    IN  /\ aircraft' = filtered
        /\ selectedAircraftDetail' =
               IF sameArray THEN selectedAircraftDetail
               ELSE LiveUpdate(selectedAircraftDetail, filtered)
        /\ mapView' =
               IF sameArray THEN mapView
               ELSE MapEffect(mapView, userLocation, filtered,
                              LiveUpdate(selectedAircraftDetail, filtered))

-----------------------------------------------------------------------------
(* Alerts view: position poll (fetchData) *)

\* fetchData up to its first await: count the fetch, decide whether it checks for arrivals
\* a fetch that checks for arrivals whatever its ordinal
StartFetchChecking ==
    /\ fetchCounter' = fetchCounter + 1
    /\ inflight' = Append(inflight, [check |-> TRUE])

StartFetch ==
    /\ fetchCounter' = fetchCounter + 1
    /\ inflight' = Append(inflight, [check |-> (fetchCounter + 1) % REFRESH_INTERVAL = 0])

\* polls: the position polls a run may start
CanStartFetch(polls) == fetchCounter < polls /\ Len(inflight) < MaxInFlight

\* the geolocation effect: the device position, or the default after an error
LocationObtained(loc, polls) ==
    /\ userLocation = NoLocation
    /\ CanStartFetch(polls)
    /\ userLocation' = loc
    /\ StartFetch
    /\ mapView' = MapEffect(mapView, loc, aircraft, selectedAircraftDetail)
    /\ UNCHANGED << allAircraft, aircraft, previousAircraft,
                    selectedAircraftDetail, showNonStandardADSB, selectedPlaneFilters,
                    planesDatabase, icaoRepo, resolutions, cycle, detailBy >>
    /\ UNCHANGED << watcherVars, trackerVars >>

\* a tick of setInterval(fetchData, FETCH_INTERVAL_MS)
FetchTick(polls) ==
    /\ userLocation # NoLocation
    /\ CanStartFetch(polls)
    /\ StartFetch
    /\ UNCHANGED << userLocation, allAircraft, aircraft, previousAircraft,
                    selectedAircraftDetail, showNonStandardADSB, selectedPlaneFilters,
                    planesDatabase, icaoRepo, resolutions, cycle, detailBy, mapView >>
    /\ UNCHANGED << watcherVars, trackerVars >>

RemoveAt(seq, i) == SubSeq(seq, 1, i - 1) \o SubSeq(seq, i + 1, Len(seq))

\* an arrival whether or not the feed gives a registration
IsNewEntryUnregistered(ac, seen) == ac.hex \notin seen

\* ac => !previousAircraft.current.has(ac.hex) && ac.r
IsNewEntry(ac, seen) == ac.hex \notin seen /\ Truthy(ac.r)

\* the arrivals taken from the list the filter keeps
NewEntriesFiltered(currentAircraft, seen) ==
    LET isNew(ac) == IsNewEntry(ac, seen)
    IN  SelectSeq(FilterAircraft(currentAircraft, showNonStandardADSB,
                                 selectedPlaneFilters, planesDatabase), isNew)

\* const newEntries = currentAircraft.filter(...)
NewEntries(currentAircraft, seen) ==
    LET isNew(ac) == IsNewEntry(ac, seen)
    IN  SelectSeq(currentAircraft, isNew)

\* the identifiers seen so far, never forgotten
NextSeenMerged(currentAircraft, seen) == seen \cup HexCodes(currentAircraft)

\* previousAircraft.current = new Set(currentAircraft.map(ac => ac.hex))
NextSeen(currentAircraft, seen) == HexCodes(currentAircraft)

\* the arrival listed last
NewAircraftLast(newEntries) == newEntries[Len(newEntries)]

\* const newAircraft = newEntries[0]
NewAircraft(newEntries) == newEntries[1]

\* what a reply carries: its registration, type and manufacturer values
NoPayload == [registration |-> Undefined, type |-> Undefined, manufacturer |-> Undefined]

\* the call fetchAircraftDetails(newAircraft.hex.replace('~', ''), ...) up to its first await
NewResolution(newAircraft) ==
    LET hex == ReplaceFirst(newAircraft.hex, "~")
        speedKmh == DeriveSpeed(newAircraft.mach, newAircraft.gs)
    IN  [hex |-> hex, altitude |-> newAircraft.alt_baro, speedKmh |-> speedKmh,
         aircraftData |-> newAircraft,
         provisional |-> DefaultDetails(hex, newAircraft.alt_baro, speedKmh, newAircraft),
         pc |-> "adsbdb", queried |-> << "adsbdb" >>, outcomes |-> <<>>,
         result |-> "running", payload |-> NoPayload]

\* the response of poll i arrives with a well-formed body
FetchOk(i, currentAircraft) ==
    /\ i \in 1..Len(inflight)
    /\ inflight' = RemoveAt(inflight, i)
    /\ allAircraft' = currentAircraft
    /\ IF inflight[i].check
       THEN LET newEntries == NewEntries(currentAircraft, previousAircraft)
            IN  /\ IF newEntries # <<>>
                   THEN /\ resolutions' = Append(resolutions,
                                               NewResolution(NewAircraft(newEntries)))
                        /\ detailBy' = Len(resolutions) + 1
                        /\ EffectsAfterList(currentAircraft,
                               NewResolution(NewAircraft(newEntries)).provisional)
                   ELSE /\ UNCHANGED << resolutions, detailBy >>
                        /\ EffectsAfterList(currentAircraft, selectedAircraftDetail)
                /\ previousAircraft' = NextSeen(currentAircraft, previousAircraft)
                /\ cycle' = [kind |-> "ok", checked |-> TRUE, list |-> currentAircraft,
                             seen |-> previousAircraft, newEntries |-> newEntries,
                             dispatched |-> IF newEntries # <<>>
                                            THEN Len(resolutions) + 1 ELSE 0,
                             checks |-> LastThree(<< currentAircraft >> \o cycle.checks)]
       ELSE /\ cycle' = [kind |-> "ok", checked |-> FALSE, list |-> currentAircraft,
                         seen |-> previousAircraft, newEntries |-> <<>>, dispatched |-> 0,
                         checks |-> cycle.checks]
            /\ EffectsAfterList(currentAircraft, selectedAircraftDetail)
            /\ UNCHANGED << resolutions, detailBy, previousAircraft >>
    /\ UNCHANGED << userLocation, fetchCounter, showNonStandardADSB,
                    selectedPlaneFilters, planesDatabase, icaoRepo >>
    /\ UNCHANGED << watcherVars, trackerVars >>

\* the response of poll i is an HTTP error or a body that does not parse: the catch logs
FetchFail(i) ==
    /\ i \in 1..Len(inflight)
    /\ inflight' = RemoveAt(inflight, i)
    /\ cycle' = [kind |-> "failed", checked |-> inflight[i].check, list |-> <<>>,
                 seen |-> previousAircraft, newEntries |-> <<>>, dispatched |-> 0,
                 checks |-> cycle.checks]
    /\ UNCHANGED << userLocation, fetchCounter, allAircraft, aircraft,
                    previousAircraft, selectedAircraftDetail, showNonStandardADSB,
                    selectedPlaneFilters, planesDatabase, icaoRepo, resolutions, detailBy,
                    mapView >>
    /\ UNCHANGED << watcherVars, trackerVars >>

-----------------------------------------------------------------------------
(* Alerts view: filter settings *)

\* the "Show Non-Standard ADS-B" checkbox
ToggleNonStandard ==
    /\ showNonStandardADSB' = ~showNonStandardADSB
    /\ EffectsAfterSettings(~showNonStandardADSB, selectedPlaneFilters, planesDatabase)
    /\ UNCHANGED << userLocation, fetchCounter, inflight, allAircraft,
                    previousAircraft, selectedPlaneFilters,
                    planesDatabase, icaoRepo, resolutions, cycle, detailBy >>
    /\ UNCHANGED << watcherVars, trackerVars >>

\* the "Others" button of the filter panel
ToggleOthers ==
    LET newFilters == IF OTHERS_FILTER \in selectedPlaneFilters
                      THEN selectedPlaneFilters \ {OTHERS_FILTER}
                      ELSE selectedPlaneFilters \cup {OTHERS_FILTER}
    IN  /\ selectedPlaneFilters' = newFilters
        /\ EffectsAfterSettings(showNonStandardADSB, newFilters, planesDatabase)
        /\ UNCHANGED << userLocation, fetchCounter, inflight, allAircraft,
                        previousAircraft, showNonStandardADSB,
                        planesDatabase, icaoRepo, resolutions, cycle, detailBy >>
        /\ UNCHANGED << watcherVars, trackerVars >>

\* planes.json arrives
LoadPlanesDatabase ==
    /\ planesDatabase = Null
    /\ planesDatabase' = PlanesDb
    /\ EffectsAfterSettings(showNonStandardADSB, selectedPlaneFilters, PlanesDb)
    /\ UNCHANGED << userLocation, fetchCounter, inflight, allAircraft,
                    previousAircraft, showNonStandardADSB,
                    selectedPlaneFilters, icaoRepo, resolutions, cycle, detailBy >>
    /\ UNCHANGED << watcherVars, trackerVars >>

\* icaorepo.json arrives (LOAD_LOCAL_DATABASE builds only)
LoadIcaoRepo ==
    /\ icaoRepo = NullRepo
    /\ icaoRepo' = LoadedRepo
    /\ UNCHANGED << userLocation, fetchCounter, inflight, allAircraft, aircraft,
                    previousAircraft, selectedAircraftDetail,
                    showNonStandardADSB, selectedPlaneFilters, planesDatabase,
                    resolutions, cycle, detailBy, mapView >>
    /\ UNCHANGED << watcherVars, trackerVars >>

\* icaorepo.json arrives and parses to an object that is not an array
LoadIcaoRepoObject ==
    /\ icaoRepo = NullRepo
    /\ icaoRepo' = ObjectRepo
    /\ UNCHANGED << userLocation, fetchCounter, inflight, allAircraft, aircraft,
                    previousAircraft, selectedAircraftDetail,
                    showNonStandardADSB, selectedPlaneFilters, planesDatabase,
                    resolutions, cycle, detailBy, mapView >>
    /\ UNCHANGED << watcherVars, trackerVars >>

-----------------------------------------------------------------------------
(* Alerts view: detail resolution (fetchAircraftDetails after Step 1) *)

\* the condition under which each provider's reply ends the chain
Succeeds(provider, reply) ==
    CASE provider = "adsbdb" -> reply.ok /\ reply.aircraft # NoObject
      [] provider = "custom" -> reply.ok
      [] provider = "hexdb" -> reply.ok /\ ~reply.error

\* the record a successful reply publishes
DetailsFrom(provider, rs, reply) ==
    CASE provider = "adsbdb" -> AdsbdbDetails(rs, reply.aircraft)
      [] provider = "custom" -> CustomDetails(rs, reply.body)
      [] provider = "hexdb" -> HexdbDetails(rs, reply.data)

\* the registration, type and manufacturer values of a reply that ended the chain
PayloadOf(provider, reply) ==
    CASE provider = "adsbdb" ->
             [registration |-> reply.aircraft.registration,
              type |-> Or(reply.aircraft.type, reply.aircraft.icao_type),
              manufacturer |-> reply.aircraft.manufacturer]
      [] provider = "custom" ->
             [registration |-> reply.body.Registration,
              type |-> Or(reply.body.Type, reply.body.Model),
              manufacturer |-> reply.body.Manufacturer]
      [] provider = "hexdb" ->
             [registration |-> reply.data.Registration,
              type |-> Or(reply.data.Type, reply.data.ICAOTypeCode),
              manufacturer |-> reply.data.Manufacturer]

\* an order that leaves the proxy out
AfterFailureSkipping(provider) ==
    CASE provider = "adsbdb" -> "hexdb"
      [] provider = "custom" -> "hexdb"
      [] provider = "hexdb" -> "local"

\* the provider tried after a failed one (the order of the try blocks)
AfterFailure(provider) ==
    CASE provider = "adsbdb" -> "custom"
      [] provider = "custom" -> "hexdb"
      [] provider = "hexdb" -> "local"

\* an exhausted chain that blanks the record
OnExhaustedUnknown(detail) ==
    IF detail = NoObject THEN detail
    ELSE [detail EXCEPT !.Registration = sUnknown, !.Manufacturer = sUnknown,
                        !.Model = sUnknown, !.RegisteredOwners = sUnknown]

\* "All sources failed - keeping default data": nothing is written
OnExhausted(detail) == detail

Finished(rs, provider, success) ==
    [rs EXCEPT !.pc = "done", !.outcomes = Append(@, success),
               !.result = IF success THEN provider ELSE "exhausted"]

\* a write that only the resolution dispatched last may make
WrittenByLatest(k, details) ==
    IF k = Len(resolutions) THEN details ELSE selectedAircraftDetail

\* setSelectedAircraftDetail(details) in resolution k: whatever was dispatched
\* or written since, the record is replaced
Written(k, details) == details

\* the reply to the request resolution k awaits
ResolverReply(k, reply) ==
    /\ k \in 1..Len(resolutions)
    /\ resolutions[k].pc \in {"adsbdb", "custom", "hexdb"}
    /\ reply \in Replies(resolutions[k].pc)
    /\ LET rs == resolutions[k]
           next == AfterFailure(rs.pc)
           failed == [rs EXCEPT !.outcomes = Append(@, FALSE)]
       IN  IF Succeeds(rs.pc, reply)
           THEN /\ selectedAircraftDetail' = Written(k, DetailsFrom(rs.pc, rs, reply))
                /\ detailBy' = k
                /\ resolutions' = [resolutions EXCEPT ![k] =
                       [Finished(rs, rs.pc, TRUE) EXCEPT !.payload = PayloadOf(rs.pc, reply)]]
           ELSE IF next # "local"
           THEN /\ resolutions' = [resolutions EXCEPT ![k] =
                        [failed EXCEPT !.pc = next, !.queried = Append(@, next)]]
                /\ UNCHANGED << selectedAircraftDetail, detailBy >>
           ELSE IF ~icaoRepo.isNull
           THEN LET localData == RepoLookup(icaoRepo, ToUpperCase(rs.hex))
                    asked == [failed EXCEPT !.queried = Append(@, "local")]
                IN  IF localData # NoObject
                    THEN /\ selectedAircraftDetail' = Written(k, LocalDetails(rs, localData))
                         /\ detailBy' = k
                         /\ resolutions' = [resolutions EXCEPT ![k] =
                                                Finished(asked, "local", TRUE)]
                    ELSE /\ selectedAircraftDetail' = OnExhausted(selectedAircraftDetail)
                         /\ resolutions' = [resolutions EXCEPT ![k] =
                                                Finished(asked, "local", FALSE)]
                         /\ UNCHANGED detailBy
           ELSE /\ selectedAircraftDetail' = OnExhausted(selectedAircraftDetail)
                /\ resolutions' = [resolutions EXCEPT ![k] =
                                       [failed EXCEPT !.pc = "done", !.result = "exhausted"]]
                /\ UNCHANGED detailBy
    /\ mapView' = IF selectedAircraftDetail' = selectedAircraftDetail THEN mapView
                  ELSE MapEffect(mapView, userLocation, aircraft, selectedAircraftDetail')
    /\ UNCHANGED << userLocation, fetchCounter, inflight, allAircraft, aircraft,
                    previousAircraft, showNonStandardADSB,
                    selectedPlaneFilters, planesDatabase, icaoRepo, cycle >>
    /\ UNCHANGED << watcherVars, trackerVars >>

-----------------------------------------------------------------------------
(* Alerts view: the Apply button of the settings panel *)

\* custom is TRUE when "use custom location" is set with coordinates that parse
ApplySettings(custom, polls) ==
    /\ selectedAircraftDetail' = NoObject
    /\ detailBy' = 0
    /\ previousAircraft' = {}
    /\ IF custom
       THEN /\ CanStartFetch(polls)
            /\ userLocation' = "custom"
            /\ StartFetch
       ELSE UNCHANGED << userLocation, fetchCounter, inflight >>
    /\ mapView' = IF ~custom /\ selectedAircraftDetail = NoObject THEN mapView
                  ELSE MapEffect(mapView, IF custom THEN "custom" ELSE userLocation,
                                 aircraft, NoObject)
    /\ UNCHANGED << allAircraft, aircraft, showNonStandardADSB,
                    selectedPlaneFilters, planesDatabase, icaoRepo, resolutions, cycle >>
    /\ UNCHANGED << watcherVars, trackerVars >>

-----------------------------------------------------------------------------
(* Alerts view: the load event of the map *)

\* mapInstance.on('load', ...): the range ring, a user-location marker and the
\* markers of the aircraft the effect saw when it built the map
MapLoaded ==
    /\ mapView.pending # NoObject
    /\ mapView' = [mapView EXCEPT
           !.pending = NoObject,
           !.markers = [i \in 1..Len(@) |-> [@[i] EXCEPT !.fresh = FALSE]]
                       \o MarkersFor(mapView.pending.list, mapView.pending.selected),
           !.users = @ + 1,
           !.run = "loaded"]
    /\ UNCHANGED << userLocation, fetchCounter, inflight, allAircraft, aircraft,
                    previousAircraft, selectedAircraftDetail, showNonStandardADSB,
                    selectedPlaneFilters, planesDatabase, icaoRepo, resolutions,
                    cycle, detailBy >>
    /\ UNCHANGED << watcherVars, trackerVars >>

-----------------------------------------------------------------------------
(* Watcher view (PlaneWatcherz).  A marker is [id, map, selected]: its     *)
(* instance, the map instance it was added to, and the variant drawn.      *)

NoRun == [ran |-> FALSE, list |-> <<>>, map |-> 0, after |-> <<>>]

\* the last run of the marker effect and the one before it
NoRecon == [ran |-> FALSE, byList |-> FALSE, list |-> <<>>, map |-> 0,
            before |-> <<>>, after |-> <<>>, prev |-> NoRun]

\* the places the geocoder knows
Places == {"A", "B"}

WatcherInit ==
    /\ wLocation = NoLocation
    /\ wSettings \in { [use |-> FALSE, place |-> NoLocation, radius |-> 20],
                       [use |-> TRUE, place |-> "A", radius |-> 20] }
    /\ wAircraft = <<>>
    /\ wSelected = Undefined
    /\ wSelectedPlane = NoObject
    /\ wMap = 0
    /\ allMarkers = <<>>
    /\ nextInstance = 0
    /\ recon = NoRecon
    /\ wGeo = "none"

\* the view is not mounted
WatcherIdle ==
    /\ wLocation = NoLocation
    /\ wSettings = [use |-> FALSE, place |-> NoLocation, radius |-> 20]
    /\ wAircraft = <<>>
    /\ wSelected = Undefined
    /\ wSelectedPlane = NoObject
    /\ wMap = 0
    /\ allMarkers = <<>>
    /\ nextInstance = 0
    /\ recon = NoRecon
    /\ wGeo = "none"

\* the hexes of list that get a new marker, in list order
RECURSIVE Missing(_, _)
Missing(list, have) ==
    IF list = <<>> THEN <<>>
    ELSE IF Head(list).hex \in have THEN Missing(Tail(list), have)
    ELSE << Head(list).hex >> \o Missing(Tail(list), have \cup {Head(list).hex})

Index(seq, x) == CHOOSE i \in 1..Len(seq) : seq[i] = x

\* the aircraft of list with identifier h
PlaneOf(list, h) == list[CHOOSE i \in 1..Len(list) : list[i].hex = h]

\* every marker constructed anew on each run
MarkersRebuilt(map, markers, list, selected, next) ==
    [h \in HexCodes(list) |->
        [id |-> next + Index([i \in 1..Len(list) |-> list[i].hex], h), map |-> map,
         selected |-> (h = selected), rotation |-> Rotation(PlaneOf(list, h)),
         onclick |-> PlaneOf(list, h)]]

\* the variant of a marker set when it is created and left alone afterwards
MarkersStyledOnce(map, markers, list, selected, next) ==
    LET current == HexCodes(list)
        kept == DOMAIN markers \cap current
        fresh == Missing(list, kept)
    IN  [h \in current |->
            IF h \in kept
            THEN [markers[h] EXCEPT !.rotation = Rotation(PlaneOf(list, h))]
            ELSE [id |-> next + Index(fresh, h), map |-> map, selected |-> (h = selected),
                  rotation |-> Rotation(PlaneOf(list, h)), onclick |-> PlaneOf(list, h)]]

\* the effect "Update markers", run with a map: drop the markers of absent
\* aircraft, restyle the remaining ones, create the missing ones
MarkersAfter(map, markers, list, selected, next) ==
    LET current == HexCodes(list)
        kept == DOMAIN markers \cap current
        fresh == Missing(list, kept)
    IN  [h \in current |->
            IF h \in kept
            THEN [markers[h] EXCEPT !.selected = (h = selected),
                                    !.rotation = Rotation(PlaneOf(list, h))]
            ELSE [id |-> next + Index(fresh, h), map |-> map, selected |-> (h = selected),
                  rotation |-> Rotation(PlaneOf(list, h)), onclick |-> PlaneOf(list, h)]]

NewMarkers(markers, list) == Len(Missing(list, DOMAIN markers \cap HexCodes(list)))

\* one run of the effect "Update markers" (byList: a new aircraft array
\* triggered it); without a map the effect returns at once
UpdateMarkers(map, markers, list, selected, next, byList) ==
    LET after == IF map = 0 THEN markers
                 ELSE MarkersAfter(map, markers, list, selected, next)
    IN  /\ allMarkers' = after
        /\ nextInstance' = IF map = 0 THEN next ELSE next + NewMarkers(markers, list)
        /\ recon' = [ran |-> map # 0, byList |-> byList, list |-> list, map |-> map,
                     before |-> markers, after |-> after,
                     prev |-> [ran |-> recon.ran, list |-> recon.list,
                               map |-> recon.map, after |-> recon.after]]

\* the effect "Initialize map (once)": a map is constructed only when there is none
MapAfterInit(map, location, next) ==
    IF location # NoLocation /\ map = 0 THEN next + 1 ELSE map

\* the watcher view is the route shown until the track button leaves it
WatcherShown == passedAircraft = NoObject

\* the effect "Update selected aircraft with live data", run on a new list
SelectedAfter(list, hex, plane) ==
    IF hex # Undefined /\ hex \in HexCodes(list) THEN PlaneOf(list, hex) ELSE plane

\* the effect "Get user location" at mount: the saved custom location, or the
\* device position when the browser reports one
WLocate ==
    /\ WatcherShown
    /\ wLocation = NoLocation
    /\ wGeo = "none" \/ (wSettings.use /\ wSettings.place # NoLocation)
    /\ nextInstance < MaxInstances
    /\ wLocation' = IF wSettings.use /\ wSettings.place # NoLocation
                    THEN wSettings.place ELSE "device"
    /\ wMap' = MapAfterInit(wMap, wLocation', nextInstance)
    /\ nextInstance' = IF wMap = 0 THEN nextInstance + 1 ELSE nextInstance
    /\ UNCHANGED << wSettings, wAircraft, wSelected, wSelectedPlane, allMarkers, recon >>
    /\ UNCHANGED << wGeo, appVars, trackerVars >>

\* the error callback of getCurrentPosition (permission denied, position
\* unavailable): console.error, nothing is set.  No timeout is passed, so an
\* unanswered request stays unanswered
WLocateDenied ==
    /\ WatcherShown
    /\ wLocation = NoLocation
    /\ wGeo = "none"
    /\ ~(wSettings.use /\ wSettings.place # NoLocation)
    /\ wGeo' = "denied"
    /\ UNCHANGED << wLocation, wSettings, wAircraft, wSelected, wSelectedPlane, wMap,
                    allMarkers, nextInstance, recon >>
    /\ UNCHANGED << appVars, trackerVars >>

\* a response applied by building the map again under the new markers
WFetchOkRebuilding(list) ==
    /\ WatcherShown
    /\ wLocation # NoLocation
    /\ nextInstance + Len(list) + 1 <= MaxInstances
    /\ wAircraft' = list
    /\ wMap' = nextInstance + 1
    /\ allMarkers' = MarkersRebuilt(nextInstance + 1, <<>>, list, wSelected, nextInstance + 1)
    /\ nextInstance' = nextInstance + 1 + Len(list)
    /\ recon' = [ran |-> TRUE, byList |-> TRUE, list |-> list, map |-> nextInstance + 1,
                 before |-> allMarkers, after |-> allMarkers',
                 prev |-> [ran |-> recon.ran, list |-> recon.list,
                           map |-> recon.map, after |-> recon.after]]
    /\ wSelectedPlane' = SelectedAfter(list, wSelected, wSelectedPlane)
    /\ UNCHANGED << wLocation, wSettings, wSelected >>
    /\ UNCHANGED << wGeo, appVars, trackerVars >>

\* fetchData applies a response: setAircraft, then the marker effect and the
\* effect that refreshes the selected aircraft
WFetchOk(list) ==
    /\ WatcherShown
    /\ wLocation # NoLocation
    /\ nextInstance + NewMarkers(allMarkers, list) <= MaxInstances
    /\ wAircraft' = list
    /\ UpdateMarkers(wMap, allMarkers, list, wSelected, nextInstance, TRUE)
    /\ wSelectedPlane' = SelectedAfter(list, wSelected, wSelectedPlane)
    /\ UNCHANGED << wLocation, wSettings, wSelected, wMap >>
    /\ UNCHANGED << wGeo, appVars, trackerVars >>

\* a click on the marker of hex: setSelectedAircraft(plane), then the marker effect
WSelect(h) ==
    /\ WatcherShown
    /\ wMap # 0
    /\ h \in DOMAIN allMarkers
    /\ wSelected' = h
    /\ wSelectedPlane' = allMarkers[h].onclick
    /\ UpdateMarkers(wMap, allMarkers, wAircraft, h, nextInstance, FALSE)
    /\ UNCHANGED << wLocation, wSettings, wAircraft, wMap >>
    /\ UNCHANGED << wGeo, appVars, trackerVars >>

\* the close button of the info card: setSelectedAircraft(null)
WDeselect ==
    /\ WatcherShown
    /\ wSelected # Undefined
    /\ wSelected' = Undefined
    /\ wSelectedPlane' = NoObject
    /\ UpdateMarkers(wMap, allMarkers, wAircraft, Undefined, nextInstance, FALSE)
    /\ UNCHANGED << wLocation, wSettings, wAircraft, wMap >>
    /\ UNCHANGED << wGeo, appVars, trackerVars >>

\* searchLocation with a geocoding result: the custom location is set, the map
\* and the markers are dropped; the location effect (and after it the map
\* effect) runs only when useCustomLocation/customLat/customLon changed
WSearchLocation(place) ==
    LET changed == ~wSettings.use \/ wSettings.place # place
    IN  /\ WatcherShown
        /\ nextInstance < MaxInstances
        /\ wSettings' = [wSettings EXCEPT !.use = TRUE, !.place = place]
        /\ allMarkers' = <<>>
        /\ IF changed
           THEN /\ wLocation' = place
                /\ wMap' = MapAfterInit(0, place, nextInstance)
                /\ nextInstance' = nextInstance + 1
           ELSE /\ wMap' = 0
                /\ UNCHANGED << wLocation, nextInstance >>
        /\ UNCHANGED << wAircraft, wSelected, wSelectedPlane, recon >>
        /\ UNCHANGED << wGeo, appVars, trackerVars >>

\* the radius field of the settings panel: the map effect runs again
WSetRadius(r) ==
    /\ WatcherShown
    /\ r # wSettings.radius
    /\ nextInstance < MaxInstances
    /\ wSettings' = [wSettings EXCEPT !.radius = r]
    /\ wMap' = MapAfterInit(wMap, wLocation, nextInstance)
    /\ nextInstance' = IF wMap' # wMap THEN nextInstance + 1 ELSE nextInstance
    /\ UNCHANGED << wLocation, wAircraft, wSelected, wSelectedPlane, allMarkers, recon >>
    /\ UNCHANGED << wGeo, appVars, trackerVars >>

WatcherNext ==
    \/ WLocate
    \/ \E list \in Feeds : WFetchOk(list)
    \/ \E h \in { a.hex : a \in Universe } : WSelect(h)
    \/ WDeselect
    \/ \E place \in Places : WSearchLocation(place)
    \/ \E r \in {10, 20} : WSetRadius(r)

-----------------------------------------------------------------------------
(* The tracker view (PlaneTrackerz in WearOS.tsx).  A coordinate pair is   *)
(* one of Positions; 0, which the effect's guard reads as "no anchor", is  *)
(* not among them.                                                         *)

Positions == {1, 2, 3}

\* the aircraft at another place
Moved(plane, p) == [plane EXCEPT !.pos = p]

\* what the position feed may answer to a query of the tracker
TrackerFeeds == { <<>>, << P2 >>, << P2, Moved(P1, 2) >> }
                 \cup { << Moved(P1, p) >> : p \in Positions }

\* Array.prototype.find(ac => ac.hex === hex)
RECURSIVE Find(_, _)
Find(list, hex) ==
    IF list = <<>> THEN NoObject
    ELSE IF Head(list).hex = hex THEN Head(list)
    ELSE Find(Tail(list), hex)

Remove(seq, i) == SubSeq(seq, 1, i - 1) \o SubSeq(seq, i + 1, Len(seq))

\* one call of fetchAircraft: the anchor its closure holds, and what called it
\* (overtaken: the response to a call made after this one was handled first)
Query(at, by) == [at |-> at, by |-> by, overtaken |-> FALSE]

\* the outstanding calls once the response to call i was handled
Overtaking(seq, i) ==
    [j \in 1..(Len(seq) - 1) |->
        IF j < i THEN [seq[j] EXCEPT !.overtaken = TRUE] ELSE seq[j + 1]]

NoTCycle == [kind |-> "none", query |-> Query(NoNumber, "none"), body |-> <<>>,
             found |-> NoObject,
             before |-> NoNumber, shown |-> NoObject, misses |-> 0]

\* the view is not shown
TrackerIdle ==
    /\ passedAircraft = NoObject
    /\ currentSearch = NoNumber
    /\ tSelected = NoObject
    /\ queries = <<>>
    /\ tCycle = NoTCycle

\* the view as it mounts with the navigation state of the track button: the
\* fetch effect runs and calls fetchAircraft at once
TrackerMounted(plane) ==
    /\ passedAircraft = plane
    /\ currentSearch = plane.pos
    /\ tSelected = plane
    /\ queries = << Query(plane.pos, "mount") >>
    /\ tCycle = NoTCycle

\* the guard of the fetch effect
Tracking == passedAircraft # NoObject /\ currentSearch # NoNumber

\* the track button of the info card: navigate('/trackerz', { state }), and
\* the tracker view mounts
WTrack ==
    /\ WatcherShown
    /\ wSelectedPlane # NoObject
    /\ passedAircraft' = wSelectedPlane
    /\ currentSearch' = wSelectedPlane.pos
    /\ tSelected' = wSelectedPlane
    /\ queries' = << Query(wSelectedPlane.pos, "mount") >>
    /\ tCycle' = NoTCycle
    /\ UNCHANGED << appVars, watcherVars >>

\* consecutive responses so far that did not hold the target
Misses(n) == IF n < MaxMisses THEN n + 1 ELSE MaxMisses

\* a timer that gives up once the target was missed twice
TTickWhileSeen ==
    /\ Tracking
    /\ tCycle.misses < 2
    /\ Len(queries) < MaxQueries
    /\ queries' = Append(queries, Query(currentSearch, "tick"))
    /\ tCycle' = [tCycle EXCEPT !.kind = "tick", !.query = Query(currentSearch, "tick")]
    /\ UNCHANGED << passedAircraft, currentSearch, tSelected >>
    /\ UNCHANGED << appVars, watcherVars >>

\* setInterval(fetchAircraft, FETCH_INTERVAL_MS): a tick calls fetchAircraft,
\* which queries around the anchor of the effect run that set the timer
TTick ==
    /\ Tracking
    /\ Len(queries) < MaxQueries
    /\ queries' = Append(queries, Query(currentSearch, "tick"))
    /\ tCycle' = [tCycle EXCEPT !.kind = "tick", !.query = Query(currentSearch, "tick")]
    /\ UNCHANGED << passedAircraft, currentSearch, tSelected >>
    /\ UNCHANGED << appVars, watcherVars >>

\* the state after fetchAircraft handled a body: with the target in it, the
\* displayed aircraft and the anchor are replaced; a moved anchor runs the
\* fetch effect again, which sets a new timer and calls fetchAircraft at once
Handled(i, currentAircraft, found, anchor, shown) ==
    LET rest == Overtaking(queries, i)
    IN  /\ tSelected' = shown
        /\ currentSearch' = anchor
        /\ queries' = IF anchor # currentSearch
                      THEN Append(rest, Query(anchor, "effect")) ELSE rest
        /\ tCycle' = [kind |-> IF found # NoObject THEN "found" ELSE "absent",
                      query |-> queries[i], body |-> currentAircraft, found |-> found,
                      before |-> currentSearch, shown |-> tSelected,
                      misses |-> IF found # NoObject THEN 0 ELSE Misses(tCycle.misses)]
        /\ UNCHANGED passedAircraft
        /\ UNCHANGED << appVars, watcherVars >>

\* a response that shows the target without following it
TResponseStaying(i, currentAircraft) ==
    /\ Tracking
    /\ i \in 1..Len(queries)
    /\ LET found == Find(currentAircraft, passedAircraft.hex)
       IN  Handled(i, currentAircraft, found, currentSearch,
                   IF found # NoObject THEN found ELSE tSelected)

\* a response that blanks the display when the target is not in it
TResponseClearing(i, currentAircraft) ==
    /\ Tracking
    /\ i \in 1..Len(queries)
    /\ LET found == Find(currentAircraft, passedAircraft.hex)
       IN  Handled(i, currentAircraft, found,
                   IF found # NoObject THEN found.pos ELSE currentSearch, found)

\* fetchAircraft receives an ok response to query i
TResponse(i, currentAircraft) ==
    /\ Tracking
    /\ i \in 1..Len(queries)
    /\ LET found == Find(currentAircraft, passedAircraft.hex)
       IN  Handled(i, currentAircraft, found,
                   IF found # NoObject THEN found.pos ELSE currentSearch,
                   IF found # NoObject THEN found ELSE tSelected)

\* query i is answered with status 429 or another error status, or the
\* request fails: fetchAircraft returns or logs the error
TFail(i) ==
    /\ Tracking
    /\ i \in 1..Len(queries)
    /\ queries' = Remove(queries, i)
    /\ tCycle' = [kind |-> "failed", query |-> queries[i], body |-> <<>>,
                  found |-> NoObject,
                  before |-> currentSearch, shown |-> tSelected,
                  misses |-> Misses(tCycle.misses)]
    /\ UNCHANGED << passedAircraft, currentSearch, tSelected >>
    /\ UNCHANGED << appVars, watcherVars >>

TrackerNext ==
    \/ TTick
    \/ \E i \in 1..MaxQueries, currentAircraft \in TrackerFeeds : TResponse(i, currentAircraft)
    \/ \E i \in 1..MaxQueries : TFail(i)

-----------------------------------------------------------------------------
(* The alerts view.  locations: what the geolocation effect may report    *)
(* (custom coordinates can be applied only where "custom" is one of them); *)
(* feeds: the bodies the position feed may answer with; replies: the       *)
(* replies the detail providers may give.                                  *)

PollNext(locations, feeds, polls) ==
    \/ \E loc \in locations : LocationObtained(loc, polls)
    \/ FetchTick(polls)
    \/ \E i \in 1..MaxInFlight : \E list \in feeds : FetchOk(i, list)
    \/ \E i \in 1..MaxInFlight : FetchFail(i)
    \/ \E custom \in { c \in BOOLEAN : c => "custom" \in locations } :
           ApplySettings(custom, polls)

SettingsNext ==
    \/ ToggleNonStandard
    \/ ToggleOthers
    \/ LoadPlanesDatabase

ResolveNext(replies) ==
    \E k \in 1..(MaxFetch \div REFRESH_INTERVAL) : \E reply \in replies :
        ResolverReply(k, reply)

AllReplies == AdsbdbReplies \cup CustomReplies \cup HexdbReplies

(* Polling, filtering and novelty detection in the build as shipped, with  *)
(* one saved model filter; the detail providers do not answer.             *)

Init == AppInit({ {mBoeing737} }, {FALSE}, {EmptyRepo}) /\ WatcherIdle /\ TrackerIdle

Next ==
    \/ PollNext({"device"}, Feeds, MaxFetch)
    \/ SettingsNext

Spec == Init /\ [][Next]_vars

(* Detail resolution: every provider reply, both builds, a saved custom    *)
(* location, no filter and the non-standard sources shown, a feed with     *)
(* one registered aircraft at a time.                                      *)

ResolverFeeds == { <<>>, << P1 >>, << P3, P2 >> }

InitResolver == AppInit({ {} }, {TRUE}, {EmptyRepo, NullRepo}) /\ WatcherIdle /\ TrackerIdle

NextResolver ==
    \/ PollNext({"custom"}, ResolverFeeds, MaxFetch)
    \/ ResolveNext(AllReplies)
    \/ LoadIcaoRepo

SpecResolver == InitResolver /\ [][NextResolver]_vars

(* Detail resolution with a provider that may never answer: the first      *)
(* provider answers, fails, or leaves the request open for ever.           *)

HungReplies == { r \in AdsbdbReplies : ~r.ok \/ r.aircraft # NoObject }

InitHung == AppInit({ {} }, {TRUE}, {NullRepo}) /\ WatcherIdle /\ TrackerIdle

NextHung ==
    \/ PollNext({"custom"}, ResolverFeeds, MaxFetch)
    \/ ResolveNext(HungReplies)

\* the poll timer keeps firing and every poll request is answered or fails in
\* the end; nothing makes a detail provider answer
PollSettled ==
    \/ \E i \in 1..MaxInFlight : \E list \in ResolverFeeds : FetchOk(i, list)
    \/ \E i \in 1..MaxInFlight : FetchFail(i)

SpecHung ==
    InitHung /\ [][NextHung]_vars /\ WF_vars(FetchTick(MaxFetch)) /\ WF_vars(PollSettled)

(* Speed derivation: one aircraft whose mach and gs readings vary; the     *)
(* tenth poll spotlights it.                                               *)

Telemetry(plane, mach, gs) == [plane EXCEPT !.mach = mach, !.gs = gs]

SpeedFeeds == { << Telemetry(P1, mach, gs) >> :
                    mach \in {NoNumber, 0, 78, 85}, gs \in {NoNumber, 0, 1, 300, 450} }

InitSpeed == AppInit({ {} }, {TRUE}, {EmptyRepo}) /\ WatcherIdle /\ TrackerIdle

NextSpeed == PollNext({"custom"}, SpeedFeeds, MaxFetchSpeed)

SpecSpeed == InitSpeed /\ [][NextSpeed]_vars

(* Startup of both views: the device position is reported, or the request *)
(* fails ("default" is the coordinate the alerts view falls back to).       *)

StartupFeeds == { <<>>, << P1 >> }

InitStartup == AppInit({ {} }, {FALSE}, {EmptyRepo}) /\ WatcherInit /\ TrackerIdle

NextStartup ==
    \/ PollNext({"device", "default"}, StartupFeeds, MaxFetchStartup)
    \/ WLocate
    \/ WLocateDenied
    \/ \E list \in StartupFeeds : WFetchOk(list)

SpecStartup == InitStartup /\ [][NextStartup]_vars

(* The offline registry: every online provider fails, icaorepo.json is an  *)
(* array of entries or one object.                                         *)

FailedReplies == { r \in AllReplies : ~r.ok }

RegistryFeeds == { <<>>, << P1 >>, << P2 >> }

InitRegistry == AppInit({ {} }, {TRUE}, {NullRepo}) /\ WatcherIdle /\ TrackerIdle

NextRegistry ==
    \/ PollNext({"custom"}, RegistryFeeds, MaxFetchSpeed)
    \/ ResolveNext(FailedReplies)
    \/ LoadIcaoRepo
    \/ LoadIcaoRepoObject

SpecRegistry == InitRegistry /\ [][NextRegistry]_vars

(* The watcher view on its own. *)

InitWatcher == AppInit({ {} }, {FALSE}, {EmptyRepo}) /\ WatcherInit /\ TrackerIdle

NextWatcher == WatcherNext

SpecWatcher == InitWatcher /\ [][NextWatcher]_vars

(* A run long enough for three arrival checks: an aircraft that comes,   *)
(* leaves and comes back, alone or behind another one.                     *)

ReappearFeeds == { <<>>, << P1 >>, << P3, P1 >> }

InitReappear == AppInit({ {} }, {TRUE}, {EmptyRepo}) /\ WatcherIdle /\ TrackerIdle

NextReappear == PollNext({"device"}, ReappearFeeds, MaxFetchLong)

SpecReappear == InitReappear /\ [][NextReappear]_vars

(* The filter on its own: every saved selection, the description-only    *)
(* aircraft in the feed, a few polls.                                      *)

FilterFeeds == { <<>>, << P1, P2 >>, << P4, P5 >>, << P3, P1 >> }

InitFilter ==
    AppInit({ {}, {mBoeing737}, {mAirbusA320} }, {FALSE}, {EmptyRepo}) /\ WatcherIdle /\ TrackerIdle

NextFilter ==
    \/ PollNext({"device"}, FilterFeeds, MaxFetchFilter)
    \/ SettingsNext

SpecFilter == InitFilter /\ [][NextFilter]_vars

(* The map of the alerts view: the device position or saved custom        *)
(* coordinates, custom coordinates applied later, the load event of the    *)
(* map at any time after the map was built.                                *)

MapFeeds == { <<>>, << P1 >>, << P1, P2 >>, << P3, P1 >> }

InitAlertsMap == AppInit({ {} }, {TRUE}, {EmptyRepo}) /\ WatcherIdle /\ TrackerIdle

NextAlertsMap ==
    \/ PollNext({"device", "custom"}, MapFeeds, MaxFetchMap)
    \/ MapLoaded

SpecAlertsMap == InitAlertsMap /\ [][NextAlertsMap]_vars

(* The tracker view alone, mounted on an aircraft the watcher view handed  *)
(* over.                                                                   *)

TrackedPlanes == { Moved(P1, p) : p \in Positions }

InitTracker ==
    /\ AppInit({ {} }, {FALSE}, {EmptyRepo})
    /\ WatcherIdle
    /\ \E plane \in TrackedPlanes : TrackerMounted(plane)

NextTracker == TrackerNext

SpecTracker == InitTracker /\ [][NextTracker]_vars

\* the timer keeps firing, and every request is answered or fails in the end
Settled ==
    \/ \E i \in 1..MaxQueries, currentAircraft \in TrackerFeeds : TResponse(i, currentAircraft)
    \/ \E i \in 1..MaxQueries : TFail(i)

SpecTrackerLive == SpecTracker /\ WF_vars(TTick) /\ WF_vars(Settled)

(* The watcher view up to the track button, over a feed in which an        *)
(* aircraft moves between polls.                                           *)

StartFeeds == { <<>>, << P1 >>, << Moved(P1, 2) >>, << P2, Moved(P1, 3) >> }

InitTrackStart == AppInit({ {} }, {FALSE}, {EmptyRepo}) /\ WatcherInit /\ TrackerIdle

NextTrackStart ==
    \/ WLocate
    \/ \E list \in StartFeeds : WFetchOk(list)
    \/ \E h \in { P1.hex, P2.hex } : WSelect(h)
    \/ WDeselect
    \/ WTrack

SpecTrackStart == InitTrackStart /\ [][NextTrackStart]_vars

-----------------------------------------------------------------------------
(* Properties *)

\* a step in which the response of a position poll is handled
PollHandled == Len(inflight') < Len(inflight)

\* a step in which a well-formed response replaces the raw list
PollApplied == PollHandled /\ cycle'.kind = "ok"

InList(ac, list) == \E j \in 1..Len(list) : list[j] = ac

C9_UnregisteredNeverArrives ==
    /\ \A i \in 1..Len(cycle.newEntries) : Truthy(cycle.newEntries[i].r)
    /\ \A k \in 1..Len(resolutions) : Truthy(resolutions[k].aircraftData.r)

\* a check cycle met an unseen aircraft without registration next to an arrival
C9_Witness ==
    /\ cycle.kind = "ok" /\ cycle.checked /\ cycle.dispatched # 0
    /\ \E j \in 1..Len(cycle.list) :
          /\ ~Truthy(cycle.list[j].r)
          /\ cycle.list[j].hex \notin cycle.seen
          /\ ~InList(cycle.list[j], cycle.newEntries)

IsPrefix(s, t) == Len(s) <= Len(t) /\ SubSeq(t, 1, Len(s)) = s

C5_SuccessNeedsData ==
    \A k \in 1..Len(resolutions) :
        resolutions[k].result \in {"adsbdb", "custom", "hexdb"} =>
            \/ Truthy(resolutions[k].payload.registration)
            \/ Truthy(resolutions[k].payload.type)

\* the chain of resolution k runs dry in this step
Exhausts(k) ==
    resolutions[k].result = "running" /\ resolutions'[k].result = "exhausted"

C7_ManufacturerKept ==
    \A k \in 1..Len(resolutions) :
        LET rs == resolutions[k]
        IN  /\ rs.queried = << "adsbdb", "custom" >>
            /\ rs.result = "custom"
            /\ Truthy(rs.payload.registration) /\ Truthy(rs.payload.type)
            /\ ~Truthy(rs.payload.manufacturer)
            /\ detailBy = k
            => /\ selectedAircraftDetail.Registration = rs.payload.registration
               /\ selectedAircraftDetail.Type = rs.payload.type
               /\ selectedAircraftDetail.Manufacturer = rs.provisional.Manufacturer

\* C8: the provisional record, built from the telemetry of the arrival, is on
\* display in the step that dispatches the resolution, before any provider has
\* replied; for registration N1 and ground speed 450 without Mach it shows
\* registration N1 and speed 833.
C8_ProvisionalFirst ==
    [][Len(resolutions') > Len(resolutions) =>
         LET k == Len(resolutions')
             rs == resolutions'[k]
         IN  /\ rs.outcomes = <<>>
             /\ detailBy' = k
             /\ selectedAircraftDetail' # NoObject
             /\ selectedAircraftDetail'.ICAO = rs.hex
             /\ selectedAircraftDetail'.Registration = rs.aircraftData.r
             /\ selectedAircraftDetail'.Manufacturer = sNotFound
             /\ selectedAircraftDetail'.RegisteredOwners = sNotFound
             /\ rs.aircraftData = P1 =>
                   /\ selectedAircraftDetail'.Registration = << "N", "1" >>
                   /\ selectedAircraftDetail'.Speed = 833]_vars

\* the record of N1 on display while the first provider has not replied
C8_Witness ==
    \E k \in 1..Len(resolutions) :
        /\ resolutions[k].outcomes = <<>>
        /\ resolutions[k].aircraftData = P1
        /\ detailBy = k
        /\ selectedAircraftDetail.Registration = << "N", "1" >>
        /\ selectedAircraftDetail.Speed = 833

MarkerIds(markers) == { markers[h].id : h \in DOMAIN markers }

\* between the last two runs of the marker effect: the markers of the
\* identifiers that left are destroyed, markers are created for those that
\* came, and the common identifiers keep their marker instance
DeltaOnly ==
    LET old == HexCodes(recon.prev.list)
        new == HexCodes(recon.list)
    IN  /\ MarkerIds(recon.prev.after) \ MarkerIds(recon.after)
              = { recon.prev.after[h].id : h \in old \ new }
        /\ MarkerIds(recon.after) \ MarkerIds(recon.prev.after)
              = { recon.after[h].id : h \in new \ old }
        /\ \A h \in old \cap new : recon.after[h].id = recon.prev.after[h].id

\* C2, as stated: across any two consecutive reconciliations only the delta
\* of the two identifier sets is destroyed and created.
C2_DeltaAlways == recon.ran /\ recon.prev.ran => DeltaOnly

\* C2, amended: across two consecutive reconciliations on the same map
\* instance (no location search removed the map in between) only the delta is
\* destroyed and created, and common identifiers keep their marker instance.
C2_DeltaOnSameMap ==
    recon.ran /\ recon.prev.ran /\ recon.prev.map = recon.map => DeltaOnly

\* {A,B} then {B,C} on one map: B keeps its marker, A's is gone, C's is new
C2_Witness ==
    /\ recon.ran /\ recon.prev.ran /\ recon.prev.map = recon.map
    /\ recon.prev.list = << P1, P2 >> /\ recon.list = << P2, P3 >>
    /\ recon.after[P2.hex].id = recon.prev.after[P2.hex].id
    /\ recon.prev.after[P1.hex].id \notin MarkerIds(recon.after)
    /\ recon.after[P3.hex].id \notin MarkerIds(recon.prev.after)

\* C3: after each run of the marker effect that a new list triggered, the
\* identifiers with a marker are exactly the identifiers of that list.
C3_MarkersMatchList ==
    recon.byList => DOMAIN recon.after = HexCodes(recon.list)

\* C11: a poll cycle dispatches at most one resolution, and that one is for
\* the first arrival in list order; the other arrivals of the cycle get none.
C11_FirstArrivalOnly ==
    [][PollHandled =>
         /\ Len(resolutions') <= Len(resolutions) + 1
         /\ Len(resolutions') > Len(resolutions) =>
               LET subject == resolutions'[Len(resolutions')].aircraftData
                   first == CHOOSE j \in 1..Len(cycle'.list) :
                                /\ IsNewEntry(cycle'.list[j], cycle'.seen)
                                /\ \A i \in 1..(j - 1) :
                                      ~IsNewEntry(cycle'.list[i], cycle'.seen)
               IN  /\ \E j \in 1..Len(cycle'.list) :
                          IsNewEntry(cycle'.list[j], cycle'.seen)
                   /\ subject = cycle'.list[first]]_vars

\* a check cycle with two arrivals, the first of which was dispatched
C11_Witness ==
    /\ cycle.kind = "ok" /\ cycle.checked
    /\ Len(cycle.newEntries) = 2
    /\ cycle.dispatched = Len(resolutions)
    /\ resolutions[cycle.dispatched].aircraftData = cycle.newEntries[1]
    /\ resolutions[cycle.dispatched].aircraftData # cycle.newEntries[2]

C13_FailedPollIsEmptyCycle ==
    [][PollHandled /\ cycle'.kind = "failed" =>
         /\ allAircraft' = <<>>
         /\ aircraft' = <<>>
         /\ selectedAircraftDetail' = selectedAircraftDetail
         /\ fetchCounter' = fetchCounter
         /\ Len(inflight') = Len(inflight) - 1]_vars

\* the type code names a relayed or multilaterated source
Relayed(ac) ==
    Includes(ac.t, sTisb) \/ Includes(ac.t, sAdsr) \/ Includes(ac.t, sMlat)

\* C14: while the non-standard sources are not opted in, the filtered list
\* holds no aircraft whose type code names a relayed source, whatever models
\* are selected; while they are opted in, every aircraft of the raw list that
\* the model selection lets through is in the filtered list.
C14_RelayedSourcesExcluded ==
    /\ ~showNonStandardADSB =>
           \A j \in 1..Len(aircraft) : ~Relayed(aircraft[j])
    /\ showNonStandardADSB =>
           \A j \in 1..Len(allAircraft) :
               matchesFilter(allAircraft[j], selectedPlaneFilters, planesDatabase)
               => InList(allAircraft[j], aircraft)

\* a relayed aircraft that the model selection would let through (others is
\* selected) is in the raw list and not in the filtered one
C14_Witness ==
    /\ ~showNonStandardADSB
    /\ planesDatabase # Null
    /\ OTHERS_FILTER \in selectedPlaneFilters
    /\ InList(P3, allAircraft)
    /\ ~InList(P3, aircraft)
    /\ InList(P1, aircraft)

\* the rule of the model selection for an aircraft of the feed, by the
\* taxonomy file
SelectionAdmits(ac) ==
    \/ selectedPlaneFilters = {}
    \/ KnownMatches[ac] \cap selectedPlaneFilters # {}
    \/ KnownMatches[ac] = {} /\ OTHERS_FILTER \in selectedPlaneFilters

\* the aircraft of the raw list that the source exclusion lets through
PastSourceExclusion(ac) == showNonStandardADSB \/ ~Relayed(ac)

\* C15: an aircraft passes the model filtering exactly when the selection is
\* empty, or it matches a selected model, or it matches no model of the
\* taxonomy and "others" is selected.
C15_SelectionRule ==
    \A j \in 1..Len(allAircraft) :
        PastSourceExclusion(allAircraft[j]) =>
            (InList(allAircraft[j], aircraft) <=> SelectionAdmits(allAircraft[j]))

\* C15 as amended: the rule holds once the taxonomy has arrived; until then
\* every aircraft passes, whatever is selected.
C15_SelectionRuleWhenLoaded ==
    \A j \in 1..Len(allAircraft) :
        PastSourceExclusion(allAircraft[j]) =>
            (InList(allAircraft[j], aircraft) <=>
                 planesDatabase = Null \/ SelectionAdmits(allAircraft[j]))

\* with the taxonomy loaded and only Boeing 737 selected, the raw list holds a
\* 737 and an aircraft of no known model, and the filtered list the 737 alone
C15_Witness ==
    /\ planesDatabase # Null
    /\ selectedPlaneFilters = {mBoeing737}
    /\ showNonStandardADSB
    /\ allAircraft = << P3, P1 >>
    /\ KnownMatches[P3] = {}
    /\ aircraft = << P1 >>

\* the models of the taxonomy file with a pattern that matches the type code
\* of ac or the description of ac
EitherFieldMatches ==
    [ac \in Catalogue |-> MatchedModels(ac.t, PlanesDb) \cup MatchedModels(ac.desc, PlanesDb)]

\* C16: an aircraft matches a model when one of the model's patterns matches,
\* case-insensitively, its type code or its description, either field alone
\* being enough; so with the taxonomy loaded and a selection made, an aircraft
\* is in the filtered list exactly when a model matched in this way is
\* selected, or none is matched and "others" is selected.
C16_EitherFieldSuffices ==
    planesDatabase # Null /\ selectedPlaneFilters # {} =>
        \A j \in 1..Len(allAircraft) :
            LET ac == allAircraft[j]
            IN  PastSourceExclusion(ac) =>
                    (InList(ac, aircraft) <=>
                         \/ EitherFieldMatches[ac] \cap selectedPlaneFilters # {}
                         \/ /\ EitherFieldMatches[ac] = {}
                            /\ OTHERS_FILTER \in selectedPlaneFilters)

\* the taxonomy db without pattern i of model k of manufacturer m
WithoutPattern(db, m, k, i) ==
    [db EXCEPT ![m].models[k].regex = RemoveAt(@, i)]

\* C17: a pattern of the taxonomy that is not a valid expression is skipped
\* and filtering goes on: the filtered list is the one that the taxonomy
\* without that pattern gives.
C17_InvalidPatternSkipped ==
    planesDatabase # Null =>
        \A m \in 1..Len(planesDatabase) :
            \A k \in 1..Len(planesDatabase[m].models) :
                \A i \in 1..Len(planesDatabase[m].models[k].regex) :
                    ~planesDatabase[m].models[k].regex[i].valid =>
                        aircraft = FilterAircraft(allAircraft, showNonStandardADSB,
                                                  selectedPlaneFilters,
                                                  WithoutPattern(planesDatabase, m, k, i))

\* the A320, whose model lists an invalid pattern before the one that matches,
\* passes the selection of that model; the 737 beside it does not
C17_Witness ==
    /\ planesDatabase # Null
    /\ ~planesDatabase[2].models[1].regex[1].valid
    /\ selectedPlaneFilters = {mAirbusA320}
    /\ allAircraft = << P1, P2 >>
    /\ aircraft = << P2 >>

\* the rotation by the order track, calc_track, dir, and 0 without any
RotationCalculatedFirst(plane) ==
    LET heading == Nullish(Nullish(plane.track, plane.calc_track), plane.dir)
    IN  IF heading # NoNumber THEN heading ELSE 0

\* C18: after a reconciliation the rotation of every marker is the track of
\* its aircraft if defined, else its calc_track if defined, else its dir if
\* defined, else 0; an aircraft without track, with calc_track 270 and dir 90,
\* has a marker rotated by 270.
C18_RotationFallback ==
    recon.ran =>
        \A h \in DOMAIN recon.after :
            LET plane == PlaneOf(recon.list, h)
            IN  /\ recon.after[h].rotation = RotationCalculatedFirst(plane)
                /\ plane.track = NoNumber /\ plane.calc_track = 270 /\ plane.dir = 90
                   => recon.after[h].rotation = 270

\* C19: after every reconciliation each marker, those that existed before it
\* included, shows the selected variant exactly when its identifier is that
\* of the selected aircraft.
C19_VariantFollowsSelection ==
    \A h \in DOMAIN allMarkers : allMarkers[h].selected <=> (h = wSelected)

\* a click selected a marker that was there in the plain variant, beside
\* another one that stays plain
C19_Witness ==
    /\ recon.ran /\ ~recon.byList /\ allMarkers = recon.after
    /\ \E h, g \in DOMAIN allMarkers \cap DOMAIN recon.before :
           /\ h # g
           /\ allMarkers[h].id = recon.before[h].id
           /\ ~recon.before[h].selected
           /\ allMarkers[h].selected /\ wSelected = h
           /\ recon.before[g].selected
           /\ ~allMarkers[g].selected

\* C20: a step that changes the aircraft list or the selection and leaves the
\* reference coordinate and the radius as they were does not build the map
\* (its bounds, its range ring) again.
C20_ViewportKept ==
    [][/\ wAircraft' # wAircraft \/ wSelected' # wSelected
       /\ wLocation' = wLocation
       /\ wSettings' = wSettings
       => wMap' = wMap]_vars

\* two reconciliations in a row, for different lists, on the same map
C20_Witness ==
    /\ wMap # 0
    /\ recon.ran /\ recon.byList /\ recon.prev.ran
    /\ recon.list # recon.prev.list
    /\ recon.list = wAircraft
    /\ recon.map = wMap
    /\ recon.prev.map = wMap

\* the aircraft markers of view that stand for identifier h
MarkersOf(view, h) == { i \in 1..Len(view.markers) : view.markers[i].hex = h }

\* C21: when a poll of the alerts view is applied without the map being built
\* again, an aircraft of both the previous and the new filtered list that had
\* a marker keeps that marker: none of its markers is one constructed in that
\* step.
C21_MarkerKeptInPlace ==
    [][/\ PollApplied
       /\ mapView.map # 0 /\ mapView'.map = mapView.map
       => \A h \in HexCodes(aircraft) \cap HexCodes(aircraft') :
              MarkersOf(mapView, h) # {} =>
                  \A i \in MarkersOf(mapView', h) : ~mapView'.markers[i].fresh]_vars

\* a step in which the tracker handles the response to one of its queries
TrackerHandled ==
    \/ Len(queries') < Len(queries)
    \/ tCycle'.kind = "found" /\ tCycle'.before # currentSearch'

C23_MissChangesNothing ==
    [][/\ TrackerHandled /\ tCycle'.kind = "absent"
          => /\ Find(tCycle'.body, passedAircraft.hex) = NoObject
             /\ currentSearch' = currentSearch
             /\ tSelected' = tSelected
       /\ tCycle.kind = "absent" /\ tCycle'.kind = "tick"
          => queries'[Len(queries')].at = tCycle.before]_vars

C23_Witness ==
    /\ tCycle.kind = "absent"
    /\ tCycle.shown # NoObject /\ tSelected = tCycle.shown
    /\ currentSearch = tCycle.before
    /\ currentSearch # passedAircraft.pos

\* C24, as stated: when the user starts tracking a selected aircraft, the
\* tracker's first anchor is that aircraft's position in the most recent poll
\* result of the watcher view.
C24_AnchorIsLastKnown ==
    [][/\ passedAircraft = NoObject /\ passedAircraft' # NoObject
       /\ passedAircraft'.hex \in HexCodes(wAircraft)
       => currentSearch' = PlaneOf(wAircraft, passedAircraft'.hex).pos]_vars

\* C25: however many responses in a row fail to hold the target, the tracker
\* goes on following: it is still tracking and its timer issues another query
\* around the unchanged anchor (unless a response that was still on its way
\* finds the target first); there is no state in which it has given up.
C25_KeepsFollowing ==
    /\ [][tCycle'.kind \in {"absent", "failed", "tick"}
          => Tracking' /\ currentSearch' = currentSearch]_vars
    /\ (tCycle.kind \in {"absent", "failed"} /\ tCycle.misses = MaxMisses)
       ~> (/\ Tracking
           /\ \/ /\ tCycle.kind = "tick" /\ tCycle.misses = MaxMisses
                 /\ tCycle.query.at = currentSearch
              \/ tCycle.kind = "found")

C25_Witness ==
    /\ Tracking
    /\ tCycle.kind = "tick"
    /\ tCycle.misses = MaxMisses
    /\ tCycle.query.at = currentSearch
    /\ queries # <<>> /\ queries[Len(queries)] = Query(currentSearch, "tick")

\* C26: a dispatched resolution is not cancelled: when it succeeds, its record
\* replaces the displayed one even if a later resolution was dispatched or has
\* written in the meantime, so the displayed record is that of whichever
\* resolution wrote last.
C26_LastWriterShown ==
    /\ [][\A k \in 1..Len(resolutions) :
              /\ resolutions[k].result = "running"
              /\ resolutions'[k].result \in {"adsbdb", "custom", "hexdb", "local"}
              => /\ detailBy' = k
                 /\ selectedAircraftDetail' # NoObject
                 /\ selectedAircraftDetail'.ICAO = resolutions[k].hex
                 /\ selectedAircraftDetail'.Speed = resolutions[k].speedKmh]_vars
    /\ [](detailBy # 0 /\ selectedAircraftDetail # NoObject
          => selectedAircraftDetail.ICAO = resolutions[detailBy].hex)

C26_Witness ==
    /\ Len(resolutions) = 2
    /\ detailBy = 1
    /\ resolutions[1].result \in {"adsbdb", "custom", "hexdb", "local"}
    /\ resolutions[2].hex # resolutions[1].hex
    /\ selectedAircraftDetail # NoObject
    /\ selectedAircraftDetail.ICAO = resolutions[1].hex

\* C27, as stated: a position poll does not start before the previous one has
\* applied its result, so the results are applied in the order the requests
\* were issued.
C27_PollsDoNotOverlap ==
    /\ [](Len(inflight) <= 1)
    /\ [][PollHandled => inflight' = Tail(inflight)]_vars

\* a resolution whose request to a provider has not been answered
Hung(k) == k \in 1..Len(resolutions) /\ resolutions[k].result = "running"

\* C28: while a resolver request stays unanswered, polls still start (as far
\* as the run goes) and every applied poll still filters the list and
\* reconciles the markers; an arrival found meanwhile is spotlighted with its
\* provisional record.  Only the record of the hung resolution stays as it is.
C28_HungResolverBlocksNothing ==
    /\ [][(\E k \in 1..MaxFetch : Hung(k)) /\ PollApplied
          => /\ allAircraft' = cycle'.list
             /\ aircraft' = FilterAircraft(cycle'.list, showNonStandardADSB,
                                           selectedPlaneFilters, planesDatabase)
             /\ mapView' = MapEffect(mapView, userLocation, aircraft',
                                     selectedAircraftDetail')
             /\ cycle'.newEntries # <<>>
                => /\ Len(resolutions') = Len(resolutions) + 1
                   /\ detailBy' = Len(resolutions')
                   /\ selectedAircraftDetail' =
                          LiveUpdate(resolutions'[detailBy'].provisional, aircraft')]_vars
    /\ Hung(1) ~> (fetchCounter = MaxFetch \/ ~Hung(1))

C28_Witness ==
    /\ Hung(1)
    /\ Len(resolutions) = 2
    /\ detailBy = 2
    /\ cycle.kind = "ok" /\ cycle.dispatched = 2
    /\ selectedAircraftDetail = LiveUpdate(resolutions[2].provisional, aircraft)
    /\ mapView.run = "refreshed"

\* s is x * num / den rounded to the nearest integer, halves upwards
IsRounded(s, x, num, den) ==
    2 * s * den - den <= 2 * x * num /\ 2 * x * num < 2 * s * den + den

\* C29, as stated: the derived speed is round(Mach * 1234.8) when the aircraft
\* reports a Mach value, else round(knots * 1.852) when it reports a ground
\* speed, else absent.  (mach is in hundredths.)
C29_DerivedSpeed ==
    \A k \in 1..Len(resolutions) :
        LET data == resolutions[k].aircraftData
            speedKmh == resolutions[k].speedKmh
        IN  IF data.mach # NoNumber THEN IsRounded(speedKmh, data.mach, 12348, 1000)
            ELSE IF data.gs # NoNumber THEN IsRounded(speedKmh, data.gs, 1852, 1000)
            ELSE speedKmh = NoNumber

\* the same for readings that are not 0
C29_DerivedSpeedNonZero ==
    \A k \in 1..Len(resolutions) :
        LET data == resolutions[k].aircraftData
            speedKmh == resolutions[k].speedKmh
        IN  data.mach # 0 /\ data.gs # 0
            => IF data.mach # NoNumber THEN IsRounded(speedKmh, data.mach, 12348, 1000)
               ELSE IF data.gs # NoNumber THEN IsRounded(speedKmh, data.gs, 1852, 1000)
               ELSE speedKmh = NoNumber

Publishes(k) ==
    /\ resolutions[k].result = "running"
    /\ resolutions'[k].result \in {"adsbdb", "custom", "hexdb", "local"}

Known(v) == Truthy(v) /\ v # sUnknown /\ v # sNotFound

\* C31: while a resolution runs, a field of its record that holds a known
\* value (from the telemetry or from an earlier provider) is not replaced by
\* the "unknown" placeholder when a later source publishes.
C31_KnownNotDowngraded ==
    [][\A k \in 1..Len(resolutions) :
          Publishes(k) /\ detailBy = k /\ selectedAircraftDetail # NoObject
          => /\ Known(selectedAircraftDetail.Registration)
                => selectedAircraftDetail'.Registration # sUnknown
             /\ Known(selectedAircraftDetail.Manufacturer)
                => selectedAircraftDetail'.Manufacturer # sUnknown
             /\ Known(selectedAircraftDetail.Model)
                => selectedAircraftDetail'.Model # sUnknown
             /\ Known(selectedAircraftDetail.RegisteredOwners)
                => selectedAircraftDetail'.RegisteredOwners # sUnknown]_vars

\* C32: when the device location is unavailable or denied, the reference
\* coordinate becomes the fixed default and polling starts, in the alerts view
\* and in the watcher view alike.
C32_FallbackLocation ==
    /\ [][userLocation = NoLocation /\ userLocation' = "default"
          => Len(inflight') = Len(inflight) + 1]_vars
    /\ [][wGeo = "none" /\ wGeo' = "denied" => wLocation' # NoLocation]_vars

\* the truthy values among the aliases of one logical field
Present(values) == { v \in values : Truthy(v) }

\* C33: the offline registry is keyed by upper-cased identifier: an aircraft
\* whose identifier equals that of a registry entry, letter case ignored, is
\* found by the offline resolver, and registration, manufacturer, type and
\* owner are each read from whichever alias the entry holds.
C33_OfflineRegistry ==
    \A k \in 1..Len(resolutions) :
        LET rs == resolutions[k]
            hits == { e \in icaoRepo.map : ToUpperCase(e.key) = ToUpperCase(rs.hex) }
        IN  rs.queried = Providers /\ rs.pc = "done" /\ hits # {}
            => /\ rs.result = "local"
               /\ detailBy = k =>
                    \E e \in hits :
                        LET d == selectedAircraftDetail
                            regs == Present({e.entry.reg, e.entry.r, e.entry.registration})
                            makers == Present({e.entry.manufacturer, e.entry.m})
                            types == Present({e.entry.icaotype, e.entry.t, e.entry.type,
                                              e.entry.short_type})
                            owners == Present({e.entry.ownop, e.entry.o, e.entry.owner})
                        IN  /\ regs # {} => d.Registration \in regs
                            /\ makers # {} => d.Manufacturer \in makers
                            /\ types # {} => d.Model \in types
                            /\ owners # {} => d.RegisteredOwners \in owners

C35_QueriesOnlyAtTicks ==
    [][TrackerHandled
       => /\ Len(queries') = Len(queries) - 1
          /\ \A j \in 1..Len(queries') : queries'[j].by # "effect"]_vars

\* C36: the anchor never moves back to an older report: the response to a
\* query that arrives after the response to a later query was handled changes
\* neither the anchor nor the aircraft on display.
C36_StaleResponseIgnored ==
    [][TrackerHandled /\ tCycle'.query.overtaken
       => currentSearch' = currentSearch /\ tSelected' = tSelected]_vars

\* C37: once Apply has cleared the spotlighted detail and SeenSet, the detail
\* view stays empty until a later novelty check spotlights an arrival: an
\* empty detail is filled only by the step that dispatches a resolution, never
\* by the reply to a resolution dispatched earlier.
C37_ClearedStaysEmpty ==
    [][selectedAircraftDetail = NoObject /\ selectedAircraftDetail' # NoObject
       => /\ PollApplied
          /\ Len(resolutions') = Len(resolutions) + 1]_vars

\* C38: in the alerts view, whenever the spotlighted aircraft is in the
\* filtered list and the aircraft markers are drawn, its marker and only its
\* marker is drawn selected, whatever the form of its identifier ('~' prefix
\* included).
C38_OnlySpotlightSelected ==
    LET d == selectedAircraftDetail
        spot == { i \in 1..Len(aircraft) : ReplaceFirst(aircraft[i].hex, "~") = d.ICAO }
    IN  /\ d # NoObject /\ spot # {}
        /\ mapView.map # 0 /\ mapView.pending = NoObject
        => /\ \E i \in 1..Len(mapView.markers) : mapView.markers[i].selected
           /\ \A i \in 1..Len(mapView.markers) :
                  mapView.markers[i].selected
                  <=> ReplaceFirst(mapView.markers[i].hex, "~") = d.ICAO

\* C39: whenever the reference coordinate or the radius changes, the map is
\* built again, so that its viewport and range ring reflect the new values.
C39_MapRebuiltOnChange ==
    [][/\ wSettings'.radius # wSettings.radius \/ wLocation' # wLocation
       /\ wLocation' # NoLocation
       => wMap' # 0 /\ wMap' # wMap]_vars

\* C40: in the alerts view no two aircraft markers for the same identifier
\* are attached to the map at any time, the time between a change of the list
\* and the map's pending load callback included.
C40_OneMarkerPerIdentifier ==
    \A i, j \in 1..Len(mapView.markers) :
        mapView.markers[i].hex = mapView.markers[j].hex => i = j

=============================================================================
